---- MODULE Spec2Model ----
(***************************************************************************)
(* Online Palengke backend bootstrap.                                      *)
(*                                                                         *)
(* config/supabase.ts (the client factory, evaluated at import time) and   *)
(* backend/src/index.ts (banner, session check, heartbeat, SIGINT handler) *)
(* as a state machine.  One action is one run-to-completion block of the   *)
(* single-threaded event loop: a module body, the continuation of main     *)
(* after its await, one timer callback, one signal-handler invocation.     *)
(*                                                                         *)
(* The program is run twice, in lockstep, on the same event schedule:      *)
(* run[1] and run[2] get the same SUPABASE_URL and SUPABASE_ANON_KEY and   *)
(* every pair of distinct SUPABASE_SERVICE_ROLE_KEY values.  Properties of *)
(* one process are stated for every r in Runs; the independence of the     *)
(* standard client from the optional key compares the two runs.            *)
(*                                                                         *)
(* An interrupt that arrives before process.on('SIGINT', ...) has run is   *)
(* handled by the runtime's default disposition, not by code of this       *)
(* repository, and is not part of the model.                               *)
(***************************************************************************)
EXTENDS Integers, Sequences, FiniteSets, TLC

\* ------------------------------------------------------------------ bounds
\* time may pass freely up to MaxTime; later it passes only up to the next
\* firing of a live timer that has fired fewer than MaxBeats times
MaxTime == 31
MaxBeats == 2
MaxInterrupts == 2

\* --------------------------------------------------------------- constants
\* setInterval(..., 30000): the heartbeat period, in seconds
Interval == 30
\* exitCode of a process that has not exited
NotExited == -1

Runs == {1, 2}

\* process.env.X of a variable that is not set
Undefined == "<undefined>"
Urls == {Undefined, "", "https://x.test"}
AnonKeys == {Undefined, "", "pub-123"}
\* the service-role key: unset, empty, a key the service would accept and a
\* key it would reject
ServiceKeySeq == << Undefined, "", "svc-456", "not-a-valid-key" >>
ServiceKeys == {ServiceKeySeq[i] : i \in 1..Len(ServiceKeySeq)}

\* the error a failing session check carries, and the error raised by
\* destructuring { data: { session }, error } when data is missing
AuthError == "AuthError"
TypeError == "TypeError"
NoError == "null"

\* how supabase.auth.getSession() can settle: it rejects, it resolves to a
\* value without a data field, or it resolves to { data: { session }, error }
\* with a null or non-null session and a null or non-null error
NoOutcome == [settle |-> "none", data |-> "absent", error |-> NoError]
Outcomes ==
    {[settle |-> "rejected", data |-> "absent", error |-> AuthError]}
    \cup {[settle |-> "fulfilled", data |-> "absent", error |-> NoError]}
    \cup {[settle |-> "fulfilled", data |-> d, error |-> e] :
             d \in {"nullSession", "session"}, e \in {NoError, AuthError}}

\* ---------------------------------------------------------------- log lines
MissingEnvLines ==
    << "Missing Supabase environment variables!",
       "Please check your .env file and ensure you have:",
       "SUPABASE_URL=your_supabase_url",
       "SUPABASE_ANON_KEY=your_anon_key" >>
ConnectedLine == "Supabase connected successfully!"
BannerLines ==
    << "Online Palengke Backend Starting...",
       "Connecting Dipolog City residents with local vendors" >>
SuccessLines ==
    << "Database connection successful!",
       "Ready to serve the palengke!",
       "Supabase client initialized and ready",
       "Next: Design your database schema for vendors, products, and orders" >>
HeartbeatLine == "Backend running..."
FailedLine == "Failed to connect to database:"
HintLine == "Make sure your .env file has the correct Supabase credentials"
ShutdownLine == "Shutting down Online Palengke backend..."

\* effects other than console lines, recorded in program order in trace
ClientCreated == "createClient()"
CallIssued == "supabase.auth.getSession()"
Settled == "await settled"
TimerArmed == "setInterval()"
Exited == "process.exit()"

\* ------------------------------------------------------------------ helpers
\* JavaScript truthiness of an environment string
Truthy(v) == v # Undefined /\ v # ""

\* a client handle; Unset is a binding whose module has not been evaluated,
\* Null the explicit null exported for a missing service-role key
Unset == [kind |-> "unset", url |-> Undefined, key |-> Undefined]
Null == [kind |-> "null", url |-> Undefined, key |-> Undefined]
createClient(url, key) == [kind |-> "client", url |-> url, key |-> key]
IsClient(c) == c.kind = "client"

Count(s, line) == Cardinality({i \in 1..Len(s) : s[i] = line})
Has(s, line) == \E i \in 1..Len(s) : s[i] = line

VARIABLES run, now, interrupts
vars == <<run, now, interrupts>>

Alive(p) == p.exitCode = NotExited

\* process.exit(code)
exit(p, code) == [p EXCEPT !.exitCode = code, !.trace = Append(@, Exited)]

InitProc(url, anonKey, serviceKey) ==
    [ env |-> [url |-> url, anonKey |-> anonKey, serviceKey |-> serviceKey],
      pc |-> "config",
      supabase |-> Unset,
      supabaseAdmin |-> Unset,
      handler |-> FALSE,
      log |-> << >>,
      trace |-> << >>,
      calls |-> << >>,
      result |-> NoOutcome,
      timers |-> 0,
      armedAt |-> 0,
      due |-> 0,
      beats |-> << >>,
      exitCode |-> NotExited ]

Init ==
    /\ now = 0
    /\ interrupts = 0
    /\ \E url \in Urls, anonKey \in AnonKeys :
       \E i \in 1..Len(ServiceKeySeq), j \in 1..Len(ServiceKeySeq) :
          /\ i < j
          /\ run = [r \in Runs |->
                       InitProc(url, anonKey, ServiceKeySeq[IF r = 1 THEN i ELSE j])]

\* ------------------------------------------------------ config/supabase.ts
\* if (!supabaseUrl || !supabaseKey)
ConfigMissing_UrlOnly(url, key) == ~Truthy(url)
ConfigMissing(url, key) == ~Truthy(url) \/ ~Truthy(key)

\* supabaseServiceKey ? createClient(supabaseUrl, supabaseServiceKey) : null
supabaseAdminOf_DefinedCheck(url, serviceKey) ==
    IF serviceKey # Undefined THEN createClient(url, serviceKey) ELSE Null
supabaseAdminOf_SwappedArgs(url, serviceKey) ==
    IF Truthy(serviceKey) THEN createClient(serviceKey, url) ELSE Null
supabaseAdminOf(url, serviceKey) ==
    IF Truthy(serviceKey) THEN createClient(url, serviceKey) ELSE Null

\* the module body, evaluated once when index.ts imports it
SupabaseModule_ServiceKeyRequired(p) ==
    IF ConfigMissing(p.env.url, p.env.anonKey) \/ ~Truthy(p.env.serviceKey)
    THEN exit([p EXCEPT !.log = @ \o MissingEnvLines, !.trace = @ \o MissingEnvLines], 1)
    ELSE [p EXCEPT !.supabase = createClient(p.env.url, p.env.anonKey),
                   !.supabaseAdmin = supabaseAdminOf(p.env.url, p.env.serviceKey),
                   !.log = Append(@, ConnectedLine),
                   !.trace = @ \o <<ClientCreated>>
                                \o (IF IsClient(supabaseAdminOf(p.env.url, p.env.serviceKey))
                                    THEN <<ClientCreated>> ELSE << >>)
                                \o <<ConnectedLine>>,
                   !.pc = "index"]
SupabaseModule_NamesOnlyMissingKey(p) ==
    IF ConfigMissing(p.env.url, p.env.anonKey)
    THEN LET lines == << MissingEnvLines[1], MissingEnvLines[2] >>
                      \o (IF Truthy(p.env.url) THEN << >> ELSE << MissingEnvLines[3] >>)
                      \o (IF Truthy(p.env.anonKey) THEN << >> ELSE << MissingEnvLines[4] >>)
         IN  exit([p EXCEPT !.log = @ \o lines, !.trace = @ \o lines], 1)
    ELSE [p EXCEPT !.supabase = createClient(p.env.url, p.env.anonKey),
                   !.supabaseAdmin = supabaseAdminOf(p.env.url, p.env.serviceKey),
                   !.log = Append(@, ConnectedLine),
                   !.trace = @ \o <<ClientCreated>>
                                \o (IF IsClient(supabaseAdminOf(p.env.url, p.env.serviceKey))
                                    THEN <<ClientCreated>> ELSE << >>)
                                \o <<ConnectedLine>>,
                   !.pc = "index"]
SupabaseModule_LogsBeforeAdmin(p) ==
    IF ConfigMissing(p.env.url, p.env.anonKey)
    THEN exit([p EXCEPT !.log = @ \o MissingEnvLines, !.trace = @ \o MissingEnvLines], 1)
    ELSE [p EXCEPT !.supabase = createClient(p.env.url, p.env.anonKey),
                   !.supabaseAdmin = supabaseAdminOf(p.env.url, p.env.serviceKey),
                   !.log = Append(@, ConnectedLine),
                   !.trace = @ \o <<ClientCreated, ConnectedLine>>
                                \o (IF IsClient(supabaseAdminOf(p.env.url, p.env.serviceKey))
                                    THEN <<ClientCreated>> ELSE << >>),
                   !.pc = "index"]
SupabaseModule(p) ==
    IF ConfigMissing(p.env.url, p.env.anonKey)
    THEN exit([p EXCEPT !.log = @ \o MissingEnvLines, !.trace = @ \o MissingEnvLines], 1)
    ELSE [p EXCEPT !.supabase = createClient(p.env.url, p.env.anonKey),
                   !.supabaseAdmin = supabaseAdminOf(p.env.url, p.env.serviceKey),
                   !.log = Append(@, ConnectedLine),
                   !.trace = @ \o <<ClientCreated>>
                                \o (IF IsClient(supabaseAdminOf(p.env.url, p.env.serviceKey))
                                    THEN <<ClientCreated>> ELSE << >>)
                                \o <<ConnectedLine>>,
                   !.pc = "index"]

\* ------------------------------------------------------------- src/index.ts
\* process.on('SIGINT', () => { console.log(...); process.exit(0) })
sigintHandler_NoExit(p) == [p EXCEPT !.log = Append(@, ShutdownLine), !.trace = Append(@, ShutdownLine)]
sigintHandler_ExitOne(p) == exit([p EXCEPT !.log = Append(@, ShutdownLine), !.trace = Append(@, ShutdownLine)], 1)
sigintHandler(p) == exit([p EXCEPT !.log = Append(@, ShutdownLine), !.trace = Append(@, ShutdownLine)], 0)

\* main() up to its await: the two banner lines, then the session check is
\* issued on the standard client and main suspends
mainStart_TimerBeforeAwait(p, t) ==
    [p EXCEPT !.log = @ \o BannerLines,
              !.trace = @ \o BannerLines \o <<TimerArmed, CallIssued>>,
              !.calls = Append(@, p.supabase),
              !.timers = @ + 1,
              !.armedAt = t,
              !.due = t + Interval,
              !.pc = "await"]
mainStart_CallBeforeBanner(p, t) ==
    [p EXCEPT !.log = @ \o BannerLines,
              !.trace = @ \o <<CallIssued>> \o BannerLines,
              !.calls = Append(@, p.supabase),
              !.pc = "await"]
mainStart_UsesAdminWhenPresent(p, t) ==
    [p EXCEPT !.log = @ \o BannerLines,
              !.trace = @ \o BannerLines \o <<CallIssued>>,
              !.calls = Append(@, IF IsClient(p.supabaseAdmin) THEN p.supabaseAdmin ELSE p.supabase),
              !.pc = "await"]
mainStart(p, t) ==
    [p EXCEPT !.log = @ \o BannerLines,
              !.trace = @ \o BannerLines \o <<CallIssued>>,
              !.calls = Append(@, p.supabase),
              !.pc = "await"]

\* main().catch(console.error): the handler of a rejection of main()'s own
\* promise logs the error and does not exit
topLevelCatch(p, error) ==
    [p EXCEPT !.log = Append(@, error), !.trace = Append(@, error), !.pc = "rejected"]

\* catch (error) { console.error x3; process.exit(1) }
mainCatch_NoExit(p, error) ==
    [p EXCEPT !.log = @ \o <<FailedLine, error, HintLine>>,
              !.trace = @ \o <<FailedLine, error, HintLine>>,
              !.pc = "catch"]
mainCatch_ExitZero(p, error) ==
    exit([p EXCEPT !.log = @ \o <<FailedLine, error, HintLine>>,
              !.trace = @ \o <<FailedLine, error, HintLine>>,
              !.pc = "catch"], 0)
mainCatch_Retry(p, error) ==
    exit([p EXCEPT !.log = @ \o <<FailedLine, error, HintLine>>,
              !.trace = @ \o <<FailedLine, error, HintLine, CallIssued>>,
              !.calls = Append(@, p.supabase),
              !.pc = "catch"], 1)
mainCatch_Rethrows(p, error) ==
    topLevelCatch([p EXCEPT !.log = @ \o <<FailedLine, error, HintLine>>,
                            !.trace = @ \o <<FailedLine, error, HintLine>>], error)
mainCatch(p, error) ==
    exit([p EXCEPT !.log = @ \o <<FailedLine, error, HintLine>>,
              !.trace = @ \o <<FailedLine, error, HintLine>>,
              !.pc = "catch"], 1)

\* the rest of the try block: four log lines, then setInterval(..., 30000)
mainSuccess_DropsAdmin(p, t) ==
    [p EXCEPT !.log = @ \o SuccessLines,
              !.trace = @ \o SuccessLines \o <<TimerArmed>>,
              !.supabaseAdmin = Null,
              !.timers = @ + 1,
              !.armedAt = t,
              !.due = t + Interval,
              !.pc = "done"]
mainSuccess_ImmediateFirst(p, t) ==
    [p EXCEPT !.log = @ \o SuccessLines,
              !.trace = @ \o SuccessLines \o <<TimerArmed>>,
              !.timers = @ + 1,
              !.armedAt = t,
              !.due = t,
              !.pc = "done"]
mainSuccess(p, t) ==
    [p EXCEPT !.log = @ \o SuccessLines,
              !.trace = @ \o SuccessLines \o <<TimerArmed>>,
              !.timers = @ + 1,
              !.armedAt = t,
              !.due = t + Interval,
              !.pc = "done"]

\* main() resumes when the promise of getSession() settles with outcome o:
\* a rejection and a failing destructuring both land in the catch block;
\* the destructured error is never read
mainResume_NullSessionFails(p, o, t) ==
    LET q == [p EXCEPT !.result = o, !.trace = Append(@, Settled)]
    IN  IF o.settle = "rejected" THEN mainCatch(q, o.error)
        ELSE IF o.data = "absent" THEN mainCatch(q, TypeError)
        ELSE IF o.data = "nullSession" THEN mainCatch(q, "No active session")
        ELSE mainSuccess(q, t)
mainResume_DestructuresOutsideTry(p, o, t) ==
    LET q == [p EXCEPT !.result = o, !.trace = Append(@, Settled)]
    IN  IF o.settle = "rejected" THEN mainCatch(q, o.error)
        ELSE IF o.data = "absent" THEN topLevelCatch(q, TypeError)
        ELSE mainSuccess(q, t)
mainResume(p, o, t) ==
    LET q == [p EXCEPT !.result = o, !.trace = Append(@, Settled)]
    IN  IF o.settle = "rejected" THEN mainCatch(q, o.error)
        ELSE IF o.data = "absent" THEN mainCatch(q, TypeError)
        ELSE mainSuccess(q, t)

\* the setInterval callback: one log line with the current time
heartbeat_OneShot(p, t) ==
    [p EXCEPT !.log = Append(@, HeartbeatLine),
              !.trace = Append(@, HeartbeatLine),
              !.beats = Append(@, t),
              !.timers = @ - 1]
heartbeat_Rearms(p, t) ==
    [p EXCEPT !.log = Append(@, HeartbeatLine),
              !.trace = @ \o <<HeartbeatLine, TimerArmed>>,
              !.beats = Append(@, t),
              !.timers = @ + 1,
              !.due = t + Interval]
heartbeat_LogsTwice(p, t) ==
    [p EXCEPT !.log = @ \o <<HeartbeatLine, HeartbeatLine>>,
              !.trace = @ \o <<HeartbeatLine, HeartbeatLine>>,
              !.beats = Append(@, t),
              !.due = t + Interval]
heartbeat(p, t) ==
    [p EXCEPT !.log = Append(@, HeartbeatLine),
              !.trace = Append(@, HeartbeatLine),
              !.beats = Append(@, t),
              !.due = t + Interval]

\* the module body of index.ts: the handler is registered, then main() is called
indexModule(p, t) == mainStart([p EXCEPT !.handler = TRUE], t)

\* ----------------------------------------------------------------- actions
CanLoadConfig(p) == Alive(p) /\ p.pc = "config"
CanStart(p) == Alive(p) /\ p.pc = "index"
CanResume_IgnoresExit(p) == p.pc = "await"
CanResume(p) == Alive(p) /\ p.pc = "await"
CanBeat(p) == Alive(p) /\ p.timers > 0 /\ now >= p.due
CanHandle(p) == Alive(p) /\ p.handler

LoadConfig ==
    /\ \E r \in Runs : CanLoadConfig(run[r])
    /\ run' = [r \in Runs |-> IF CanLoadConfig(run[r]) THEN SupabaseModule(run[r]) ELSE run[r]]
    /\ UNCHANGED <<now, interrupts>>

Start ==
    /\ \E r \in Runs : CanStart(run[r])
    /\ run' = [r \in Runs |-> IF CanStart(run[r]) THEN indexModule(run[r], now) ELSE run[r]]
    /\ UNCHANGED <<now, interrupts>>

SessionSettles ==
    /\ \E r \in Runs : CanResume(run[r])
    /\ \E o \in Outcomes :
          run' = [r \in Runs |-> IF CanResume(run[r]) THEN mainResume(run[r], o, now) ELSE run[r]]
    /\ UNCHANGED <<now, interrupts>>

Heartbeat ==
    /\ \E r \in Runs : CanBeat(run[r])
    /\ run' = [r \in Runs |-> IF CanBeat(run[r]) THEN heartbeat(run[r], now) ELSE run[r]]
    /\ UNCHANGED <<now, interrupts>>

\* an interrupt is delivered; the handler runs in every process that is
\* alive and has registered it
SIGINT ==
    /\ interrupts < MaxInterrupts
    /\ \E r \in Runs : run[r].handler
    /\ interrupts' = interrupts + 1
    /\ run' = [r \in Runs |-> IF CanHandle(run[r]) THEN sigintHandler(run[r]) ELSE run[r]]
    /\ UNCHANGED now

\* a live process has an armed timer that has not fired MaxBeats times and
\* is not due yet
TimerWaiting(p) == Alive(p) /\ p.timers > 0 /\ Len(p.beats) < MaxBeats /\ now < p.due

\* time passes
Advance ==
    /\ now < MaxTime \/ \E r \in Runs : TimerWaiting(run[r])
    /\ now' = now + 1
    /\ UNCHANGED <<run, interrupts>>

Next == LoadConfig \/ Start \/ SessionSettles \/ Heartbeat \/ SIGINT \/ Advance

Spec == Init /\ [][Next]_vars

\* the event loop runs a timer callback that is due, and time passes
FairSpec == Spec /\ WF_vars(Heartbeat) /\ WF_vars(Advance)

\* in addition, the promise of getSession() eventually settles
ProbeFairSpec == FairSpec /\ WF_vars(SessionSettles)

\* ------------------------------------------------------------ lifecycle
Lifecycle(p) ==
    IF ~Alive(p) THEN "TERMINATED"
    ELSE IF p.pc = "done" THEN "RUNNING"
    ELSE IF p.pc = "await" THEN "STARTING"
    ELSE "LOADING"

\* ------------------------------------------------ vocabulary of the claims
\* a required or optional configuration value that is absent or empty
Absent(v) == v = Undefined \/ v = ""
RequiredAbsent(p) == Absent(p.env.url) \/ Absent(p.env.anonKey)
FactoryCompleted(p) == p.pc # "config"
Last(s) == s[Len(s)]
FirstIndex(s, line) == CHOOSE i \in 1..Len(s) : s[i] = line /\ \A j \in 1..(i - 1) : s[j] # line

\* ------------------------------------------------------------------- C1
\* C1 (P1, required-config gate): whenever the endpoint URL or the public
\* credential is absent or empty, whatever the privileged credential is, no
\* client is ever constructed, no banner line is emitted, no session check
\* is issued, and the only state in which the process has not yet exited
\* with status 1 is the one before the factory has run.
C1_RequiredConfigGate ==
    \A r \in Runs :
        RequiredAbsent(run[r]) =>
            /\ run[r].supabase = Unset
            /\ run[r].supabaseAdmin = Unset
            /\ run[r].calls = << >>
            /\ \A i \in 1..Len(BannerLines) : ~Has(run[r].log, BannerLines[i])
            /\ ~Has(run[r].log, ConnectedLine)
            /\ run[r].exitCode \in {NotExited, 1}
            /\ (Alive(run[r]) => run[r].log = << >> /\ run[r].pc = "config")

\* a required value is missing (here only the public credential, with a
\* privileged credential present) and the process has exited with status 1
C1_Witness ==
    \E r \in Runs :
        /\ ~Absent(run[r].env.url)
        /\ Absent(run[r].env.anonKey)
        /\ ~Absent(run[r].env.serviceKey)
        /\ run[r].exitCode = 1
        /\ now > 0

\* ------------------------------------------------------------------- C2
\* C2 (P5, rejection case): once the session check has rejected, the process
\* has exited with status 1, no heartbeat timer is armed and no heartbeat
\* line has been logged.
C2_RejectionIsTerminal ==
    \A r \in Runs :
        run[r].result.settle = "rejected" =>
            /\ run[r].exitCode = 1
            /\ run[r].timers = 0
            /\ run[r].beats = << >>
            /\ ~Has(run[r].log, HeartbeatLine)

\* the session check rejected and more than a heartbeat period has passed
C2_Witness ==
    \E r \in Runs :
        /\ run[r].result.settle = "rejected"
        /\ run[r].exitCode = 1
        /\ now > Interval

\* ------------------------------------------------------------------- C3
\* C3: a session check that resolves to a result with a non-empty error
\* field is a probe failure: the process does not enter RUNNING, logs the
\* error block containing that error, exits with status 1 and arms no timer.
C3_ReturnedErrorIsFailure ==
    \A r \in Runs :
        (run[r].result.settle = "fulfilled" /\ run[r].result.error # NoError) =>
            /\ run[r].pc # "done"
            /\ run[r].exitCode = 1
            /\ run[r].timers = 0
            /\ Has(run[r].log, FailedLine)
            /\ Has(run[r].log, run[r].result.error)

C5_InterruptShutdown ==
    /\ [](\A r \in Runs :
            /\ Count(run[r].log, ShutdownLine) <= 1
            /\ (run[r].exitCode = 0 => Count(run[r].log, ShutdownLine) = 1))
    /\ [][\A r \in Runs :
            (interrupts' = interrupts + 1 /\ Lifecycle(run[r]) = "RUNNING") =>
                /\ run'[r].exitCode = 0
                /\ run'[r].log = Append(run[r].log, ShutdownLine)
                /\ Count(run'[r].log, ShutdownLine) = 1]_vars

\* interrupted while RUNNING after two heartbeats, then interrupted again
C5_Witness ==
    \E r \in Runs :
        /\ run[r].pc = "done"
        /\ Len(run[r].beats) >= 2
        /\ run[r].exitCode = 0
        /\ interrupts >= 2
        /\ Count(run[r].log, ShutdownLine) = 1

\* ------------------------------------------------------------------- C6
\* C6 (P3, elevated-client gating): once the factory has completed, the
\* elevated client exists iff the privileged credential is present and
\* non-empty; otherwise the exported value is exactly null, and when it
\* exists it is a complete client bound to (url, privileged credential).
C6_ElevatedClientGating ==
    \A r \in Runs :
        FactoryCompleted(run[r]) =>
            /\ IsClient(run[r].supabaseAdmin) <=> ~Absent(run[r].env.serviceKey)
            /\ Absent(run[r].env.serviceKey) => run[r].supabaseAdmin = Null
            /\ ~Absent(run[r].env.serviceKey) =>
                  run[r].supabaseAdmin =
                      [kind |-> "client", url |-> run[r].env.url, key |-> run[r].env.serviceKey]

\* the factory completed in both runs, one with an empty privileged
\* credential and one with a non-empty one
C6_Witness ==
    /\ \A r \in Runs : FactoryCompleted(run[r])
    /\ \E r \in Runs : run[r].env.serviceKey = "" /\ run[r].supabaseAdmin = Null
    /\ \E r \in Runs : IsClient(run[r].supabaseAdmin)

\* ------------------------------------------------------------------- C7
\* C7 (P2, optional-config independence): two runs that agree on endpoint
\* URL and public credential, differ in the privileged credential and see
\* the same session-check outcome and the same timer and interrupt events
\* have, at every step, the same standard-client binding, the same
\* lifecycle state, the same log and the same exit status.
Observable(p) ==
    [ supabase |-> p.supabase,
      lifecycle |-> Lifecycle(p),
      log |-> p.log,
      exitCode |-> p.exitCode ]
C7_OptionalConfigIndependence ==
    (/\ run[1].env.url = run[2].env.url
     /\ run[1].env.anonKey = run[2].env.anonKey
     /\ run[1].env.serviceKey # run[2].env.serviceKey)
    => Observable(run[1]) = Observable(run[2])

\* one run without and one with a privileged credential, both RUNNING with
\* a heartbeat logged
C7_Witness ==
    /\ run[1].env.serviceKey = Undefined
    /\ run[2].env.serviceKey = "svc-456"
    /\ run[1].supabaseAdmin = Null
    /\ IsClient(run[2].supabaseAdmin)
    /\ \A r \in Runs : Lifecycle(run[r]) = "RUNNING" /\ Len(run[r].beats) >= 1

\* ------------------------------------------------------------------- C8
\* C8 (same-endpoint invariant): whenever an elevated client exists, a
\* standard client exists too, both are bound to the configured endpoint
\* URL, the standard client to the public credential and the elevated
\* client to the privileged credential.
C8_SameEndpoint ==
    \A r \in Runs :
        IsClient(run[r].supabaseAdmin) =>
            /\ IsClient(run[r].supabase)
            /\ run[r].supabase.url = run[r].supabaseAdmin.url
            /\ run[r].supabase.url = run[r].env.url
            /\ run[r].supabase.key = run[r].env.anonKey
            /\ run[r].supabaseAdmin.key = run[r].env.serviceKey

\* both clients exist
C8_Witness ==
    \E r \in Runs : IsClient(run[r].supabaseAdmin) /\ IsClient(run[r].supabase)

\* ------------------------------------------------------------------- C9
\* C9 (exit-code contract): the exit status is 0 or 1; status 0 only after
\* an interrupt, with the shutdown line as the last line logged; status 1
\* only with missing required configuration or a failed session check, and
\* never once the process has entered RUNNING.
SessionCheckFailed(p) ==
    \/ p.result.settle = "rejected"
    \/ p.result.settle = "fulfilled" /\ (p.result.data = "absent" \/ p.result.error # NoError)
C9_ExitCodeContract ==
    \A r \in Runs :
        /\ run[r].exitCode \in {NotExited, 0, 1}
        /\ run[r].exitCode = 0 =>
              /\ interrupts > 0
              /\ run[r].log # << >>
              /\ Last(run[r].log) = ShutdownLine
        /\ run[r].exitCode = 1 =>
              /\ RequiredAbsent(run[r]) \/ SessionCheckFailed(run[r])
              /\ run[r].pc # "done"
              /\ run[r].timers = 0
              /\ ~Has(run[r].log, SuccessLines[1])

\* the session check failed, the process exited with status 1, and an
\* interrupt delivered afterwards left that status in place
C9_Witness ==
    \E r \in Runs :
        /\ run[r].exitCode = 1
        /\ run[r].pc = "catch"
        /\ run[r].handler
        /\ interrupts >= 1

C11_AbsentSessionIsSuccess ==
    [][\A r \in Runs :
         (/\ Lifecycle(run[r]) = "STARTING"
          /\ run'[r].result.settle = "fulfilled"
          /\ run'[r].result.error = NoError
          /\ run'[r].result.data \in {"nullSession", "session"}) =>
            /\ Lifecycle(run'[r]) = "RUNNING"
            /\ run'[r].log = run[r].log \o SuccessLines
            /\ run'[r].timers = run[r].timers + 1
            /\ run'[r].due = now + Interval
            /\ run'[r].exitCode = NotExited]_vars

\* RUNNING with a heartbeat logged after a session check that returned a
\* null session and no error
C11_Witness ==
    \E r \in Runs :
        /\ run[r].result = [settle |-> "fulfilled", data |-> "nullSession", error |-> NoError]
        /\ Lifecycle(run[r]) = "RUNNING"
        /\ Has(run[r].log, SuccessLines[1])
        /\ Len(run[r].beats) >= 1

\* ------------------------------------------------------------------ C12
\* C12 (single probe, no retry): the session check is issued at most once,
\* exactly once as soon as the process has reached STARTING and not before,
\* on the standard client (bound to the endpoint URL and the public
\* credential) and never on the elevated client; after a failed session
\* check there is still only that one call.
ReachedStarting(p) == p.pc \in {"await", "catch", "done"}
C12_SingleProbe ==
    \A r \in Runs :
        /\ Len(run[r].calls) <= 1
        /\ Count(run[r].trace, CallIssued) = Len(run[r].calls)
        /\ (Len(run[r].calls) = 1) <=> ReachedStarting(run[r])
        /\ ReachedStarting(run[r]) => ~RequiredAbsent(run[r])
        /\ \A i \in 1..Len(run[r].calls) :
              /\ run[r].calls[i] =
                    [kind |-> "client", url |-> run[r].env.url, key |-> run[r].env.anonKey]
              /\ run[r].calls[i] # run[r].supabaseAdmin

\* the session check rejected, the process exited, and one call was made
C12_Witness ==
    \E r \in Runs :
        /\ run[r].result.settle = "rejected"
        /\ run[r].exitCode = 1
        /\ Len(run[r].calls) = 1
        /\ IsClient(run[r].supabaseAdmin)

\* ------------------------------------------------------------------ C13
\* C13 (probe-success log surface): between the resolution of the session
\* check and the arming of the heartbeat timer exactly two lines are
\* logged, the confirmation line and the readiness line.
BetweenSettledAndArmed(p) ==
    LET i == FirstIndex(p.trace, Settled)
        j == FirstIndex(p.trace, TimerArmed)
    IN  SubSeq(p.trace, i + 1, j - 1)
C13_TwoSuccessLines ==
    \A r \in Runs :
        (Has(run[r].trace, Settled) /\ Has(run[r].trace, TimerArmed)) =>
            BetweenSettledAndArmed(run[r]) = << SuccessLines[1], SuccessLines[2] >>

\* ------------------------------------------------------------------ C14
\* C14 (probe-failure log surface): once the session check has failed (it
\* rejected, or it returned an error, or its result could not be
\* destructured) the process has exited with status 1 and the log ends
\* with exactly one error line, the failure object and one hint line; no
\* success, readiness or heartbeat line is in the log.
FailureObject(p) ==
    IF p.result.settle = "fulfilled" /\ p.result.data = "absent" THEN TypeError
    ELSE p.result.error
C14_FailureLogSurface ==
    \A r \in Runs :
        SessionCheckFailed(run[r]) =>
            /\ run[r].exitCode = 1
            /\ Len(run[r].log) >= 3
            /\ SubSeq(run[r].log, Len(run[r].log) - 2, Len(run[r].log))
                  = << FailedLine, FailureObject(run[r]), HintLine >>
            /\ Count(run[r].log, FailedLine) = 1
            /\ Count(run[r].log, HintLine) = 1
            /\ \A i \in 1..Len(SuccessLines) : ~Has(run[r].log, SuccessLines[i])
            /\ ~Has(run[r].log, HeartbeatLine)

\* ------------------------------------------------------------------ C15
\* C15 (configuration-failure log surface): whichever required value is
\* missing, once the factory has run the log is the diagnostic block, which
\* names both SUPABASE_URL and SUPABASE_ANON_KEY, the process has exited
\* with status 1 and the block precedes the exit; the client-construction
\* confirmation line is never logged.
C15_ConfigFailureLogSurface ==
    \A r \in Runs :
        RequiredAbsent(run[r]) =>
            /\ ~Has(run[r].log, ConnectedLine)
            /\ run[r].log # << >> \/ ~Alive(run[r]) =>
                  /\ run[r].exitCode = 1
                  /\ run[r].log = << "Missing Supabase environment variables!",
                                     "Please check your .env file and ensure you have:",
                                     "SUPABASE_URL=your_supabase_url",
                                     "SUPABASE_ANON_KEY=your_anon_key" >>
                  /\ run[r].trace = run[r].log \o << Exited >>

\* only the endpoint URL is missing and the process has exited
C15_Witness ==
    \E r \in Runs :
        /\ Absent(run[r].env.url)
        /\ ~Absent(run[r].env.anonKey)
        /\ ~Alive(run[r])
        /\ Len(run[r].log) = 4

\* ------------------------------------------------------------------ C16
\* C16 (heartbeat liveness): a RUNNING process stays RUNNING across every
\* step in which no interrupt is delivered, and, the timer being scheduled
\* fairly, a RUNNING process that has logged k heartbeats (k < MaxBeats)
\* eventually logs another one or is interrupted; in particular a second
\* heartbeat follows the first.
C16_HeartbeatLiveness ==
    /\ [][\A r \in Runs :
            (Lifecycle(run[r]) = "RUNNING" /\ interrupts' = interrupts) =>
                Lifecycle(run'[r]) = "RUNNING"]_vars
    /\ \A r \in Runs : \A k \in 0..(MaxBeats - 1) :
          (Lifecycle(run[r]) = "RUNNING" /\ Len(run[r].beats) = k)
             ~> (Count(run[r].log, HeartbeatLine) > k \/ run[r].exitCode = 0)

\* still RUNNING, never interrupted, after two heartbeats two periods later
C16_Witness ==
    \E r \in Runs :
        /\ Lifecycle(run[r]) = "RUNNING"
        /\ interrupts = 0
        /\ Count(run[r].log, HeartbeatLine) >= 2
        /\ now >= 2 * Interval

\* ------------------------------------------------------------------ C17
\* C17 (client handles are immutable): once the factory has completed, no
\* step changes the standard client or the elevated client (neither its
\* existence nor its url or credential).
C17_ClientsImmutable ==
    [][\A r \in Runs :
         FactoryCompleted(run[r]) =>
            /\ run'[r].supabase = run[r].supabase
            /\ run'[r].supabaseAdmin = run[r].supabaseAdmin]_vars

\* both clients still exist after banner, session check, a heartbeat and
\* an interrupt
C17_Witness ==
    \E r \in Runs :
        /\ IsClient(run[r].supabase)
        /\ IsClient(run[r].supabaseAdmin)
        /\ Len(run[r].beats) >= 1
        /\ run[r].exitCode = 0

\* ------------------------------------------------------------------ C18
\* C18 (terminal states are absorbing, no branching back): once a process
\* has exited, no step changes anything of it (log, heartbeats, session
\* check calls and result, exit status), also when the session check was
\* still pending at the exit; a RUNNING process never returns to STARTING.
C18_TerminalAbsorbing ==
    [][\A r \in Runs :
         /\ ~Alive(run[r]) => run'[r] = run[r]
         /\ Lifecycle(run[r]) = "RUNNING" => Lifecycle(run'[r]) \in {"RUNNING", "TERMINATED"}
         /\ Lifecycle(run[r]) = "STARTING" => Lifecycle(run'[r]) # "LOADING"]_vars

\* interrupted with the session check pending; a second interrupt was
\* delivered and time has passed since
C18_Witness ==
    \E r \in Runs :
        /\ run[r].exitCode = 0
        /\ run[r].result.settle = "none"
        /\ Len(run[r].calls) = 1
        /\ interrupts >= 2
        /\ now >= 1

\* ------------------------------------------------------------------ C19
\* C19 (one timer, armed on the way to RUNNING): there is never more than
\* one timer, a live process has an armed timer iff it is RUNNING, and the
\* number of timers changes only in the step from STARTING to RUNNING.
Armed(p) == Alive(p) /\ p.timers > 0
C19_TimerArmedIffRunning ==
    /\ [](\A r \in Runs :
            /\ run[r].timers <= 1
            /\ Count(run[r].trace, TimerArmed) = run[r].timers
            /\ Armed(run[r]) <=> Lifecycle(run[r]) = "RUNNING")
    /\ [][\A r \in Runs :
            run'[r].timers # run[r].timers =>
                /\ Lifecycle(run[r]) = "STARTING"
                /\ Lifecycle(run'[r]) = "RUNNING"]_vars

\* RUNNING with one timer after it has fired twice
C19_Witness ==
    \E r \in Runs :
        /\ Lifecycle(run[r]) = "RUNNING"
        /\ run[r].timers = 1
        /\ Len(run[r].beats) >= 2

\* ------------------------------------------------------------------ C20
\* C20 (startup ordering inside the probe): in program order both banner
\* lines precede the session-check call, and on success the success line
\* comes after the resolution of the session check and before the timer is
\* armed.
C20_StartupOrdering ==
    \A r \in Runs :
        /\ Has(run[r].trace, CallIssued) =>
              /\ Has(run[r].trace, BannerLines[1])
              /\ Has(run[r].trace, BannerLines[2])
              /\ FirstIndex(run[r].trace, BannerLines[1]) < FirstIndex(run[r].trace, BannerLines[2])
              /\ FirstIndex(run[r].trace, BannerLines[2]) < FirstIndex(run[r].trace, CallIssued)
        /\ ReachedStarting(run[r]) => Has(run[r].trace, CallIssued)
        /\ (Has(run[r].trace, SuccessLines[1]) \/ Has(run[r].trace, TimerArmed)) =>
              /\ Has(run[r].trace, Settled)
              /\ Has(run[r].trace, SuccessLines[1])
              /\ Has(run[r].trace, TimerArmed)
              /\ FirstIndex(run[r].trace, CallIssued) < FirstIndex(run[r].trace, Settled)
              /\ FirstIndex(run[r].trace, Settled) < FirstIndex(run[r].trace, SuccessLines[1])
              /\ FirstIndex(run[r].trace, SuccessLines[1]) < FirstIndex(run[r].trace, TimerArmed)

\* the process has just entered RUNNING: banner, call, resolution, success
\* line and timer are all in the trace and no heartbeat has fired
C20_Witness ==
    \E r \in Runs :
        /\ Lifecycle(run[r]) = "RUNNING"
        /\ Has(run[r].trace, TimerArmed)
        /\ run[r].beats = << >>

\* ------------------------------------------------------------------ C21
\* C21 (factory before probe): with valid required configuration, once the
\* factory has completed the confirmation line is in the log exactly once;
\* in program order it comes after the construction of the standard client
\* and, if a privileged credential is configured, of the elevated client,
\* and before the first banner line and the session-check call.  Until the
\* factory has completed no probe action has happened.
LastIndex(s, line) == CHOOSE i \in 1..Len(s) : s[i] = line /\ \A j \in (i + 1)..Len(s) : s[j] # line
ProbeEffects == {BannerLines[1], BannerLines[2], CallIssued, Settled, TimerArmed,
                 HeartbeatLine, ShutdownLine}
C21_FactoryBeforeProbe ==
    \A r \in Runs :
        /\ (~RequiredAbsent(run[r]) /\ FactoryCompleted(run[r])) =>
              /\ Count(run[r].log, ConnectedLine) = 1
              /\ Count(run[r].trace, ConnectedLine) = 1
              /\ Count(run[r].trace, ClientCreated) =
                    (IF Absent(run[r].env.serviceKey) THEN 1 ELSE 2)
              /\ LastIndex(run[r].trace, ClientCreated) < FirstIndex(run[r].trace, ConnectedLine)
              /\ IsClient(run[r].supabase)
              /\ \A i \in 1..Len(run[r].trace) :
                    run[r].trace[i] \in ProbeEffects =>
                        FirstIndex(run[r].trace, ConnectedLine) < i
        /\ ~FactoryCompleted(run[r]) =>
              /\ \A i \in 1..Len(run[r].trace) : run[r].trace[i] \notin ProbeEffects
              /\ run[r].calls = << >>
              /\ ~run[r].handler
              /\ run[r].timers = 0

\* both clients were constructed and the session check has been issued
C21_Witness ==
    \E r \in Runs :
        /\ Count(run[r].trace, ClientCreated) = 2
        /\ Has(run[r].trace, CallIssued)
        /\ Has(run[r].log, BannerLines[1])

\* ------------------------------------------------------------------ C22
\* C22 (heartbeat period without catch-up): the first heartbeat fires no
\* earlier than a full period after the timer was armed, heartbeats are
\* strictly ordered in time, and by time t after arming at most
\* floor(t / 30) heartbeats have fired, also after a delayed firing.
C22_NoCatchUp ==
    \A r \in Runs :
        run[r].timers > 0 =>
            /\ Len(run[r].beats) * Interval <= now - run[r].armedAt
            /\ \A i \in 1..Len(run[r].beats) :
                  /\ run[r].beats[i] >= run[r].armedAt + Interval
                  /\ run[r].beats[i] <= now
                  /\ \A j \in 1..(i - 1) : run[r].beats[j] < run[r].beats[i]

\* two heartbeats, the first of them delayed
C22_Witness ==
    \E r \in Runs :
        /\ Len(run[r].beats) >= 2
        /\ run[r].beats[1] > run[r].armedAt + Interval

\* ------------------------------------------------------------------ C23
\* C23 (a heartbeat firing only logs): a step in which a heartbeat fires
\* records exactly one firing, appends exactly one heartbeat line, and
\* leaves the process RUNNING with the same armed timer, the same client
\* handles, the same session-check calls and result and no exit status.
C23_HeartbeatOnlyLogs ==
    [][\A r \in Runs :
         run'[r].beats # run[r].beats =>
            /\ Len(run'[r].beats) = Len(run[r].beats) + 1
            /\ run'[r].log = Append(run[r].log, HeartbeatLine)
            /\ Lifecycle(run[r]) = "RUNNING"
            /\ Lifecycle(run'[r]) = "RUNNING"
            /\ run'[r].timers = run[r].timers
            /\ run'[r].armedAt = run[r].armedAt
            /\ run'[r].supabase = run[r].supabase
            /\ run'[r].supabaseAdmin = run[r].supabaseAdmin
            /\ run'[r].calls = run[r].calls
            /\ run'[r].result = run[r].result
            /\ run'[r].exitCode = NotExited
            /\ UNCHANGED <<now, interrupts>>]_vars

\* still RUNNING with both clients after two firings
C23_Witness ==
    \E r \in Runs :
        /\ Len(run[r].beats) = 2
        /\ Count(run[r].log, HeartbeatLine) = 2
        /\ Lifecycle(run[r]) = "RUNNING"
        /\ IsClient(run[r].supabaseAdmin)

\* ------------------------------------------------------------------ C24
\* C24 (fail-fast propagation): in no reachable state has a configuration
\* error or a connectivity error occurred while the process continues:
\* once missing required configuration has been detected, or the session
\* check has failed (rejected, returned an error, or could not be
\* destructured), the process is TERMINATED with status 1 and no client
\* was constructed, no timer armed, no success line and no heartbeat logged
\* after the error.
ConfigurationErrorOccurred(p) == RequiredAbsent(p) /\ p.trace # << >>
C24_FailFast ==
    \A r \in Runs :
        /\ ConfigurationErrorOccurred(run[r]) =>
              /\ Lifecycle(run[r]) = "TERMINATED"
              /\ run[r].exitCode = 1
              /\ ~Has(run[r].trace, ClientCreated)
        /\ SessionCheckFailed(run[r]) =>
              /\ Lifecycle(run[r]) = "TERMINATED"
              /\ run[r].exitCode = 1
              /\ ~Has(run[r].trace, TimerArmed)
              /\ ~Has(run[r].trace, SuccessLines[1])
              /\ ~Has(run[r].trace, HeartbeatLine)

\* ------------------------------------------------------------------ C25
\* C25 (STARTING is left eventually, there is no timeout): a step that
\* neither settles the session check nor delivers an interrupt leaves a
\* STARTING process in STARTING with no heartbeat; an interrupt takes it to
\* TERMINATED; and, if the session check eventually settles, a STARTING
\* process eventually is RUNNING or TERMINATED.
C25_StartingIsLeft ==
    /\ [][\A r \in Runs :
            Lifecycle(run[r]) = "STARTING" =>
               /\ (interrupts' = interrupts /\ run'[r].result = run[r].result) =>
                     /\ Lifecycle(run'[r]) = "STARTING"
                     /\ run'[r].beats = << >>
                     /\ ~Has(run'[r].log, HeartbeatLine)
               /\ interrupts' = interrupts + 1 => Lifecycle(run'[r]) = "TERMINATED"]_vars
    /\ \A r \in Runs :
          (Lifecycle(run[r]) = "STARTING")
             ~> (Lifecycle(run[r]) \in {"RUNNING", "TERMINATED"})

\* still STARTING, with no heartbeat, after more than a heartbeat period
C25_Witness ==
    \E r \in Runs :
        /\ Lifecycle(run[r]) = "STARTING"
        /\ now > Interval
        /\ run[r].beats = << >>

\* ------------------------------------------------------------------ C26
\* C26 (the privileged credential is neither validated nor used): for every
\* non-empty privileged credential the elevated client is constructed with
\* it; no call is ever issued on the elevated client or with the privileged
\* credential; and a run with a privileged credential has, in every state,
\* the same lifecycle state and exit status as the run without it or with
\* another one.
C26_PrivilegedCredentialUnused ==
    /\ \A r \in Runs :
          /\ (FactoryCompleted(run[r]) /\ ~Absent(run[r].env.serviceKey)) =>
                run[r].supabaseAdmin =
                    [kind |-> "client", url |-> run[r].env.url, key |-> run[r].env.serviceKey]
          /\ \A i \in 1..Len(run[r].calls) :
                /\ run[r].calls[i] # run[r].supabaseAdmin
                /\ run[r].calls[i].key = run[r].env.anonKey
                /\ run[r].calls[i].key # run[r].env.serviceKey
    /\ run[1].exitCode = run[2].exitCode
    /\ Lifecycle(run[1]) = Lifecycle(run[2])

\* one run with a key the service would accept, one with a key it would
\* reject; both constructed the elevated client and are RUNNING
C26_Witness ==
    /\ run[1].env.serviceKey = "svc-456"
    /\ run[2].env.serviceKey = "not-a-valid-key"
    /\ \A r \in Runs :
          /\ IsClient(run[r].supabaseAdmin)
          /\ Len(run[r].calls) = 1
          /\ Lifecycle(run[r]) = "RUNNING"

====
